---- MODULE Spec2Model ----
(***************************************************************************)
(* Order-item production-status state machine of server.py: the pipeline  *)
(* T -> C -> R -> P -> F -> dispatched -> delivered | collected, the       *)
(* order-level aggregation (compute_order_status / sync_order_status) and *)
(* the request handlers of dispatch() that write orders, order_items,     *)
(* production_sessions, production_logs, qa_inspections, schedule_entries *)
(* and delivery_log.  One action is one HTTP request handled by dispatch. *)
(* Tables no property reads (audit_log, session_workers, pause_logs,      *)
(* inventory, delivery_run_costs) are left out.                           *)
(***************************************************************************)
EXTENDS Integers, Sequences, FiniteSets, TLC

VARIABLES orders, items, sessions, logs, inspections, schedule, deliveries,
          notifications, capacity, pending, resp

vars == <<orders, items, sessions, logs, inspections, schedule, deliveries,
          notifications, capacity, pending, resp>>

(* ------------------------------ bounds --------------------------------- *)

NumOrders == 1
MaxItems == 2
MaxRows == 3
ProdMaxItems == 1
MaxQty == 2
MaxProduced == 2
LogMaxProduced == 25
LogMaxLogs == 3
LogMaxSessions == 2
AggMaxItems == 3
SplitMaxQty == 3
MaxDeliveries == 2
ErrMaxSessions == 1
PlanMaxEntries == 2
DockOrders == 2

(* ------------------------------ values --------------------------------- *)

NULL == 0
NoProgress == "NULL"
NoUser == "anonymous"

ItemStatuses == {"T", "C", "R", "P", "F", "dispatched"}
OrderStatuses == ItemStatuses \cup {"delivered", "collected"}
DeliveryStatuses == {"pending", "loaded", "in_transit", "delivered", "collected"}
DockingRoles == {"planner", "production_manager", "floor_worker", "executive",
                 "office", "admin", "ops_manager"}

(* users.role *)
Roles == {"executive", "office", "planner", "production_manager", "floor_worker",
          "qa_lead", "dispatch", "yard", "driver"}

OrderIds == 1..NumOrders

(* max(a, b), and a variant that does not clamp. *)
Unclamped(a, b) == b

Max(a, b) == IF a >= b THEN a ELSE b

(* Position of a status in the pipeline T < C < R < P < F < dispatched <   *)
(* delivered = collected.                                                  *)
Rank(s) ==
    CASE s = "T" -> 0
      [] s = "C" -> 1
      [] s = "R" -> 2
      [] s = "P" -> 3
      [] s = "F" -> 4
      [] s = "dispatched" -> 5
      [] OTHER -> 6

(* ------------------------- rows and queries ---------------------------- *)

(* SELECT status FROM order_items WHERE order_id=? *)
RowsOfOrder(its, oid) == SelectSeq(its, LAMBDA it : it.order_id = oid)

StatusesOf(its, oid) ==
    [k \in 1..Len(RowsOfOrder(its, oid)) |-> RowsOfOrder(its, oid)[k].status]

ItemIdsOf(its, oid) == {i \in 1..Len(its) : its[i].order_id = oid}

CountIn(statuses, S) == Cardinality({k \in 1..Len(statuses) : statuses[k] \in S})

(* f"{finished}/{total} items complete" if total > 0 else "0/0 items complete" *)
ProgressString(finished, total) ==
    IF total > 0
    THEN ToString(finished) \o "/" \o ToString(total) \o " items complete"
    ELSE "0/0 items complete"

(* ------------------------- the aggregator ------------------------------ *)

StatusOfRank(r) ==
    CASE r = 0 -> "T" [] r = 1 -> "C" [] r = 2 -> "R" [] r = 3 -> "P"
      [] r = 4 -> "F" [] OTHER -> "dispatched"

(* Variants of the aggregation: C before R before P; an order advancing   *)
(* at most one pipeline step per recomputation.                            *)
AggregateStatusesPRSwapped(current, statuses) ==
    IF current \in {"delivered", "collected"} THEN current
    ELSE IF Len(statuses) = 0 THEN current
    ELSE IF (\A k \in 1..Len(statuses) : statuses[k] \in {"dispatched", "F"})
            /\ (\E k \in 1..Len(statuses) : statuses[k] = "dispatched")
         THEN "dispatched"
    ELSE IF \A k \in 1..Len(statuses) : statuses[k] = "F" THEN "F"
    ELSE IF \E k \in 1..Len(statuses) : statuses[k] = "C" THEN "C"
    ELSE IF \E k \in 1..Len(statuses) : statuses[k] = "R" THEN "R"
    ELSE IF \E k \in 1..Len(statuses) : statuses[k] = "P" THEN "P"
    ELSE "T"

AggregateStatusesStepwise(current, statuses) ==
    LET tgt == IF current \in {"delivered", "collected"} \/ Len(statuses) = 0
               THEN current
               ELSE IF \A k \in 1..Len(statuses) : statuses[k] \in {"dispatched", "F"}
                    THEN (IF \E k \in 1..Len(statuses) : statuses[k] = "dispatched"
                          THEN "dispatched" ELSE "F")
               ELSE IF \E k \in 1..Len(statuses) : statuses[k] = "P" THEN "P"
               ELSE IF \E k \in 1..Len(statuses) : statuses[k] = "R" THEN "R"
               ELSE IF \E k \in 1..Len(statuses) : statuses[k] = "C" THEN "C"
               ELSE "T"
    IN  IF Rank(tgt) > Rank(current) + 1
        THEN StatusOfRank(Rank(current) + 1)
        ELSE tgt

(* Variant without the early return for an order that has no items.       *)
AggregateStatusesNoEmptyCheck(current, statuses) ==
    IF current \in {"delivered", "collected"} THEN current
    ELSE IF (\A k \in 1..Len(statuses) : statuses[k] \in {"dispatched", "F"})
            /\ (\E k \in 1..Len(statuses) : statuses[k] = "dispatched")
         THEN "dispatched"
    ELSE IF \A k \in 1..Len(statuses) : statuses[k] = "F" THEN "F"
    ELSE IF \E k \in 1..Len(statuses) : statuses[k] = "P" THEN "P"
    ELSE IF \E k \in 1..Len(statuses) : statuses[k] = "R" THEN "R"
    ELSE IF \E k \in 1..Len(statuses) : statuses[k] = "C" THEN "C"
    ELSE "T"

(* The body of compute_order_status once the order row and the item rows   *)
(* are read: current is orders.status, statuses the items' statuses.       *)
AggregateStatuses(current, statuses) ==
    IF current \in {"delivered", "collected"} THEN current
    ELSE IF Len(statuses) = 0 THEN current
    ELSE IF (\A k \in 1..Len(statuses) : statuses[k] \in {"dispatched", "F"})
            /\ (\E k \in 1..Len(statuses) : statuses[k] = "dispatched")
         THEN "dispatched"
    ELSE IF \A k \in 1..Len(statuses) : statuses[k] = "F" THEN "F"
    ELSE IF \E k \in 1..Len(statuses) : statuses[k] = "P" THEN "P"
    ELSE IF \E k \in 1..Len(statuses) : statuses[k] = "R" THEN "R"
    ELSE IF \E k \in 1..Len(statuses) : statuses[k] = "C" THEN "C"
    ELSE "T"

(* A variant of sync_order_status that writes nothing. *)
sync_order_status_skipped(ords, its, oid) == ords

compute_order_status(ords, its, oid) ==
    IF oid \notin DOMAIN ords THEN "T"
    ELSE AggregateStatuses(ords[oid].status, StatusesOf(its, oid))

(* sync_order_status: the orders table after the UPDATE (an UPDATE of a    *)
(* missing row changes nothing).                                           *)
sync_order_status(ords, its, oid) ==
    LET new_status == compute_order_status(ords, its, oid)
        statuses == StatusesOf(its, oid)
        total == Len(statuses)
        finished == CountIn(statuses, {"F", "dispatched"})
        progress == ProgressString(finished, total)
    IN  IF oid \notin DOMAIN ords THEN ords
        ELSE [ords EXCEPT ![oid].status = new_status, ![oid].progress = progress]

(* ------------------------------ state ---------------------------------- *)

Stations == {1}
Zones == {1}
Prices == {1}
Deltas == {-1, 1, 2}

Resp(op, id, arg, code) == [op |-> op, id |-> id, arg |-> arg, code |-> code]

NewOrder(dt, sr) ==
    [status |-> "T", progress |-> NoProgress, is_verified |-> 0,
     delivery_type |-> dt, is_stock_run |-> sr]

(* station_capacity after init_db: station 1 is seeded with 500 units a    *)
(* day (as M505 and CHAMP are); station 2 was added later and has no row.  *)
CapStations == {1, 2}
SeededCapacity == [s \in CapStations |-> IF s = 1 THEN 500 ELSE NULL]

(* The database after the orders have been taken in (POST /orders with the *)
(* default status) and before any line item exists.                        *)
EmptyTables ==
    /\ sessions = <<>>
    /\ logs = <<>>
    /\ inspections = <<>>
    /\ schedule = <<>>
    /\ deliveries = <<>>
    /\ notifications = <<>>
    /\ capacity = SeededCapacity
    /\ pending = {}

Init ==
    /\ orders \in [OrderIds -> {NewOrder("delivery", sr) : sr \in {0, 1}}]
    /\ items = <<>>
    /\ EmptyTables
    /\ resp = Resp("init", NULL, "", 0)

(* Rows held by the tables that reference orders and items; MaxRows bounds *)
(* them together.                                                          *)
Rows ==
    Len(sessions) + Len(logs) + Len(inspections) + Len(schedule) + Len(deliveries)
    + Len(notifications)

(* A variant of the promotion that leaves out the status condition of the  *)
(* WHERE clause.                                                          *)
PromoteItemsAnyStatus(its, oid, from, to) ==
    [i \in 1..Len(its) |->
        IF its[i].order_id = oid THEN [its[i] EXCEPT !.status = to] ELSE its[i]]

(* UPDATE order_items SET status=to WHERE order_id=oid AND status IN from  *)
PromoteItems(its, oid, from, to) ==
    [i \in 1..Len(its) |->
        IF its[i].order_id = oid /\ its[i].status \in from
        THEN [its[i] EXCEPT !.status = to]
        ELSE its[i]]

(* A variant of the docking update without the order_id condition of its   *)
(* WHERE clause.                                                          *)
DockItemsEveryOrder(its, oid) ==
    [i \in 1..Len(its) |->
        IF its[i].status = "C"
        THEN [its[i] EXCEPT !.status = "R", !.docking_completed_at = 1]
        ELSE its[i]]

(* ... SET status='R', docking_completed_at=CURRENT_TIMESTAMP WHERE order_id=oid AND status='C' *)
DockItems(its, oid) ==
    [i \in 1..Len(its) |->
        IF its[i].order_id = oid /\ its[i].status = "C"
        THEN [its[i] EXCEPT !.status = "R", !.docking_completed_at = 1]
        ELSE its[i]]

Unchanged(op, id, arg, code) ==
    /\ resp' = Resp(op, id, arg, code)
    /\ UNCHANGED <<orders, items, sessions, logs, inspections, schedule, deliveries,
                   notifications, capacity, pending>>

(* POST /orders/:id/items *)
AddOrderItem(oid, qty, price, zone) ==
    /\ Len(items) < MaxItems
    /\ IF oid \notin DOMAIN orders THEN Unchanged("add_item", oid, "", 404)
       ELSE IF qty = 0 THEN Unchanged("add_item", oid, "", 400)
       ELSE /\ items' = Append(items,
                  [order_id |-> oid, sku_id |-> 1, status |-> "T", quantity |-> qty,
                   produced_quantity |-> 0, unit_price |-> price,
                   line_total |-> qty * price, zone_id |-> zone, station_id |-> NULL,
                   scheduled_date |-> NULL, docking_completed_at |-> NULL,
                   split_from_item_id |-> NULL])
            /\ resp' = Resp("add_item", oid, "", 201)
            /\ UNCHANGED <<orders, sessions, logs, inspections, schedule, deliveries,
                           notifications, capacity, pending>>

(* PUT /orders/:id/verify; has_email: the order's client has an e-mail     *)
(* address, so that the acknowledgement is written to notification_log.    *)
VerifyOrder(oid, user, has_email) ==
    /\ has_email => Rows < MaxRows
    /\ IF user = NoUser THEN Unchanged("verify", oid, "", 401)
       ELSE IF oid \notin DOMAIN orders THEN Unchanged("verify", oid, "", 404)
       ELSE IF orders[oid].status \notin {"T", "C"} THEN Unchanged("verify", oid, "", 400)
       ELSE LET its == PromoteItems(items, oid, {"T"}, "C")
                ords == [orders EXCEPT ![oid].is_verified = 1]
            IN  /\ items' = its
                /\ orders' = sync_order_status(ords, its, oid)
                /\ notifications' = IF has_email THEN Append(notifications, oid)
                                    ELSE notifications
                /\ resp' = Resp("verify", oid, "", 200)
                /\ UNCHANGED <<sessions, logs, inspections, schedule, deliveries,
                               capacity, pending>>

(* PUT /orders/:id/docking-complete *)
DockingCompleteOrder(oid, user) ==
    IF user = NoUser THEN Unchanged("docking_complete", oid, "", 401)
    ELSE IF user \notin DockingRoles THEN Unchanged("docking_complete", oid, "", 403)
    ELSE IF oid \notin DOMAIN orders THEN Unchanged("docking_complete", oid, "", 404)
    ELSE LET its == DockItems(items, oid)
         IN  /\ items' = its
             /\ orders' = sync_order_status(orders, its, oid)
             /\ resp' = Resp("docking_complete", oid, "", 200)
             /\ UNCHANGED <<sessions, logs, inspections, schedule, deliveries,
                            notifications, capacity, pending>>

(* PUT /order-items/:id/docking-complete *)
DockingCompleteItem(iid, user) ==
    IF user = NoUser THEN Unchanged("item_docking_complete", iid, "", 401)
    ELSE IF iid \notin DOMAIN items THEN Unchanged("item_docking_complete", iid, "", 404)
    ELSE IF items[iid].status # "C" THEN Unchanged("item_docking_complete", iid, "", 400)
    ELSE LET its == [items EXCEPT ![iid].status = "R", ![iid].docking_completed_at = 1]
         IN  /\ items' = its
             /\ orders' = sync_order_status(orders, its, items[iid].order_id)
             /\ resp' = Resp("item_docking_complete", iid, "", 200)
             /\ UNCHANGED <<sessions, logs, inspections, schedule, deliveries,
                            notifications, capacity, pending>>

(* The docking gate of PUT /orders/:id/status, and the gate left out.      *)
NoDockingGate(old_status, new_status) == FALSE

DockingGate(old_status, new_status) == old_status = "C" /\ new_status = "R"

(* PUT /orders/:id/status *)
SetOrderStatus(oid, new_status, user) ==
    IF user = NoUser THEN Unchanged("set_order_status", oid, new_status, 401)
    ELSE IF new_status \notin OrderStatuses
         THEN Unchanged("set_order_status", oid, new_status, 400)
    ELSE IF oid \notin DOMAIN orders THEN Unchanged("set_order_status", oid, new_status, 404)
    ELSE IF DockingGate(orders[oid].status, new_status)
         THEN Unchanged("set_order_status", oid, new_status, 400)
    ELSE /\ resp' = Resp("set_order_status", oid, new_status, 200)
         /\ UNCHANGED <<sessions, logs, inspections, schedule, deliveries, notifications, capacity, pending>>
         /\ IF new_status \in {"dispatched", "delivered", "collected"}
            THEN /\ orders' = [orders EXCEPT ![oid].status = new_status]
                 /\ items' = IF new_status = "dispatched"
                             THEN PromoteItems(items, oid, {"F"}, "dispatched")
                             ELSE items
            ELSE IF new_status = "P"
            THEN LET its == PromoteItems(items, oid, {"R"}, "P")
                 IN  /\ items' = its
                     /\ orders' = sync_order_status(orders, its, oid)
            ELSE IF new_status = "F"
            THEN LET its == PromoteItems(items, oid, ItemStatuses \ {"dispatched"}, "F")
                 IN  /\ items' = its
                     /\ orders' = sync_order_status(orders, its, oid)
            ELSE /\ orders' = [orders EXCEPT ![oid].status = new_status]
                 /\ items' = items

(* PUT /order-items/:id; body is the set of updatable columns sent, as a   *)
(* function from column name to value.  A status outside the CHECK list   *)
(* raises IntegrityError, which api_handler answers with 500.              *)
UpdatableItemFields ==
    {"sku_id", "quantity", "produced_quantity", "unit_price", "line_total", "status",
     "zone_id", "station_id", "scheduled_date"}

ItemWith(it, body) ==
    [f \in DOMAIN it |->
        IF f \in DOMAIN body \cap UpdatableItemFields THEN body[f] ELSE it[f]]

UpdateOrderItem(iid, body) ==
    LET arg == IF "status" \in DOMAIN body THEN body["status"] ELSE ""
    IN  IF iid \notin DOMAIN items THEN Unchanged("update_item", iid, arg, 404)
        ELSE IF DOMAIN body \cap UpdatableItemFields = {}
             THEN Unchanged("update_item", iid, arg, 400)
        ELSE IF "status" \in DOMAIN body /\ body["status"] \notin ItemStatuses
             THEN Unchanged("update_item", iid, arg, 500)
        ELSE /\ items' = [items EXCEPT ![iid] = ItemWith(items[iid], body)]
             /\ resp' = Resp("update_item", iid, arg, 200)
             /\ UNCHANGED <<orders, sessions, logs, inspections, schedule, deliveries,
                            notifications, capacity, pending>>

(* POST /schedule with order_item_id (planning-board drag) *)
ScheduleEntry(oid, iid, zone, station, date, qty) ==
    [order_id |-> oid, order_item_id |-> iid, zone_id |-> zone, station_id |-> station,
     scheduled_date |-> date, planned_quantity |-> qty, status |-> "planned"]

(* A variant of the item update of POST /schedule without the status       *)
(* condition of its WHERE clause.                                          *)
ScheduledItemAnyStatus(it, station, date) ==
    [it EXCEPT !.status = IF it.status = "T" THEN "C" ELSE it.status,
               !.station_id = station, !.scheduled_date = date]

(* UPDATE order_items SET status=CASE WHEN status='T' THEN 'C' ELSE status END, *)
(* station_id=?, scheduled_date=? WHERE id=? AND status IN ('T','C')            *)
ScheduledItem(it, station, date) ==
    IF it.status \in {"T", "C"}
    THEN [it EXCEPT !.status = IF it.status = "T" THEN "C" ELSE it.status,
                    !.station_id = station, !.scheduled_date = date]
    ELSE it

CreateScheduleForItem(iid, zone, station, date, planned, user) ==
    /\ Rows < MaxRows
    /\ IF user = NoUser THEN Unchanged("schedule_item", iid, "", 401)
       ELSE IF zone = NULL \/ date = NULL THEN Unchanged("schedule_item", iid, "", 400)
       ELSE IF iid \notin DOMAIN items THEN Unchanged("schedule_item", iid, "", 404)
       ELSE LET oid == items[iid].order_id
                qty == IF planned # NULL THEN planned ELSE items[iid].quantity
                its == [items EXCEPT ![iid] = ScheduledItem(items[iid], station, date)]
            IN  /\ schedule' = Append(schedule,
                                      ScheduleEntry(oid, iid, zone, station, date, qty))
                /\ items' = its
                /\ orders' = sync_order_status(orders, its, oid)
                /\ resp' = Resp("schedule_item", iid, "", 201)
                /\ UNCHANGED <<sessions, logs, inspections, deliveries, notifications, capacity, pending>>

(* POST /schedule with order_id: one entry per item of the order in the    *)
(* zone, or per item of the order when none is in the zone.                *)
RECURSIVE EntriesFor(_, _, _, _, _, _, _)
EntriesFor(its, ids, oid, zone, station, date, planned) ==
    IF ids = {} THEN <<>>
    ELSE LET i == CHOOSE x \in ids : \A y \in ids : x <= y
             qty == IF its[i].quantity # 0 THEN its[i].quantity ELSE planned
         IN  <<ScheduleEntry(oid, i, zone, station, date, qty)>>
             \o EntriesFor(its, ids \ {i}, oid, zone, station, date, planned)

CreateScheduleForOrder(oid, zone, station, date, planned, user) ==
    LET in_zone == {i \in ItemIdsOf(items, oid) : items[i].zone_id = zone}
        ids == IF in_zone # {} THEN in_zone ELSE ItemIdsOf(items, oid)
        its == [i \in 1..Len(items) |->
                   IF i \in ids THEN ScheduledItem(items[i], station, date) ELSE items[i]]
    IN  /\ Rows + Cardinality(ids) <= MaxRows
        /\ IF user = NoUser THEN Unchanged("schedule_order", oid, "", 401)
           ELSE IF zone = NULL \/ date = NULL THEN Unchanged("schedule_order", oid, "", 400)
           ELSE IF oid = NULL \/ ids = {} THEN Unchanged("schedule_order", oid, "", 400)
           ELSE /\ schedule' = schedule
                       \o EntriesFor(items, ids, oid, zone, station, date, planned)
                /\ items' = its
                /\ orders' = sync_order_status(orders, its, oid)
                /\ resp' = Resp("schedule_order", oid, "", 201)
                /\ UNCHANGED <<sessions, logs, inspections, deliveries, notifications, capacity, pending>>

(* POST /production/sessions; an order_item_id that names no row violates  *)
(* the foreign key and is answered 409.                                    *)
OpenSession(iid, station, user) ==
    /\ Rows < MaxRows
    /\ IF user = NoUser THEN Unchanged("open_session", iid, "", 401)
       ELSE IF station = NULL THEN Unchanged("open_session", iid, "", 400)
       ELSE IF iid # NULL /\ iid \notin DOMAIN items
            THEN Unchanged("open_session", iid, "", 409)
       ELSE /\ sessions' = Append(sessions,
                   [order_item_id |-> iid, status |-> "active", produced_quantity |-> 0])
            /\ resp' = Resp("open_session", iid, "", 201)
            /\ UNCHANGED <<logs, inspections, schedule, deliveries, notifications, capacity, pending>>
            /\ IF iid # NULL /\ items[iid].status = "R"
               THEN LET its == [items EXCEPT ![iid].status = "P"]
                    IN  /\ items' = its
                        /\ orders' = sync_order_status(orders, its, items[iid].order_id)
               ELSE UNCHANGED <<orders, items>>

(* Variants of the logging rule: a session that takes quantities unless   *)
(* it is completed.                                                        *)
SessionAcceptsLogUnlessCompleted(status) == status # "completed"

(* if session["status"] != "active": 400 *)
SessionAcceptsLog(status) == status = "active"

(* The running total of a session stays within the bound cap. *)
LogWithin(sid, qty_change, cap) ==
    sid \in DOMAIN sessions => sessions[sid].produced_quantity + qty_change <= cap

(* PUT /production/sessions/:id/log *)
LogQuantity(sid, qty_change, user) ==
    IF user = NoUser THEN Unchanged("log", sid, qty_change, 401)
    ELSE IF sid \notin DOMAIN sessions THEN Unchanged("log", sid, qty_change, 404)
    ELSE IF ~SessionAcceptsLog(sessions[sid].status)
         THEN Unchanged("log", sid, qty_change, 400)
    ELSE LET new_total == Max(0, sessions[sid].produced_quantity + qty_change)
         IN  /\ logs' = Append(logs, [session_id |-> sid, quantity_change |-> qty_change,
                                      running_total |-> new_total])
             /\ sessions' = [sessions EXCEPT ![sid].produced_quantity = new_total]
             /\ resp' = Resp("log", sid, qty_change, 200)
             /\ UNCHANGED <<orders, items, inspections, schedule, deliveries,
                            notifications, capacity, pending>>

(* PUT /production/sessions/:id/pause (with a valid reason) *)
PauseSession(sid, user) ==
    IF user = NoUser THEN Unchanged("pause", sid, "", 401)
    ELSE IF sid \notin DOMAIN sessions THEN Unchanged("pause", sid, "", 404)
    ELSE IF sessions[sid].status # "active" THEN Unchanged("pause", sid, "", 400)
    ELSE /\ sessions' = [sessions EXCEPT ![sid].status = "paused"]
         /\ resp' = Resp("pause", sid, "", 200)
         /\ UNCHANGED <<orders, items, logs, inspections, schedule, deliveries,
                        notifications, capacity, pending>>

(* PUT /production/sessions/:id/resume *)
ResumeSession(sid, user) ==
    IF user = NoUser THEN Unchanged("resume", sid, "", 401)
    ELSE IF sid \notin DOMAIN sessions THEN Unchanged("resume", sid, "", 404)
    ELSE IF sessions[sid].status # "paused" THEN Unchanged("resume", sid, "", 400)
    ELSE /\ sessions' = [sessions EXCEPT ![sid].status = "active"]
         /\ resp' = Resp("resume", sid, "", 200)
         /\ UNCHANGED <<orders, items, logs, inspections, schedule, deliveries,
                        notifications, capacity, pending>>

(* should_qa of PUT /production/sessions/:id/complete, and a variant that  *)
(* never opens an inspection.                                              *)
ShouldQaNever(target_met, force_complete, status) == FALSE

ShouldQa(target_met, force_complete, status) ==
    (target_met \/ force_complete) /\ status \notin {"F", "dispatched"}

BodyGet(body, key, default) == IF key \in DOMAIN body THEN body[key] ELSE default

(* SQL NULL in order_items.produced_quantity, which Python reads as None:  *)
(* a value that no sum of logged or completed quantities reaches.          *)
NullQuantity == -1000

(* produced_quantity + ? in SQL: NULL plus anything is NULL. *)
SqlAdd(a, b) == IF a = NullQuantity THEN NullQuantity ELSE a + b

(* PUT /production/sessions/:id/complete; body may carry produced_quantity *)
(* and force_complete.  The session and item UPDATEs are committed before  *)
(* target_met is computed; on an item whose produced_quantity is NULL the  *)
(* comparison None >= quantity raises TypeError, which api_handler answers *)
(* with 500.                                                               *)
CompleteSession(sid, body, user) ==
    IF user = NoUser THEN Unchanged("complete_session", sid, "", 401)
    ELSE IF sid \notin DOMAIN sessions THEN Unchanged("complete_session", sid, "", 404)
    ELSE LET session == sessions[sid]
             final_qty == BodyGet(body, "produced_quantity", session.produced_quantity)
             force_complete == BodyGet(body, "force_complete", FALSE)
             iid == session.order_item_id
             qty_delta == final_qty - session.produced_quantity
             its == IF iid # NULL
                    THEN [items EXCEPT ![iid].produced_quantity = SqlAdd(@, qty_delta)]
                    ELSE items
             raises == iid # NULL /\ its[iid].produced_quantity = NullQuantity
             target_met == iid # NULL /\ its[iid].produced_quantity >= its[iid].quantity
             should_qa == iid # NULL /\ ~raises
                          /\ ShouldQa(target_met, force_complete, its[iid].status)
         IN  /\ iid # NULL => its[iid].produced_quantity <= MaxProduced
             /\ should_qa => Rows < MaxRows
             /\ sessions' = [sessions EXCEPT ![sid].status = "completed",
                                             ![sid].produced_quantity = final_qty]
             /\ items' = its
             /\ inspections' =
                    IF should_qa
                    THEN Append(inspections,
                                [order_item_id |-> iid, session_id |-> sid,
                                 inspection_type |-> "final",
                                 batch_size |-> its[iid].produced_quantity, passed |-> 0])
                    ELSE inspections
             /\ resp' = Resp("complete_session", sid, "", IF raises THEN 500 ELSE 200)
             /\ UNCHANGED <<orders, logs, schedule, deliveries, notifications, capacity,
                            pending>>

(* POST /qa/inspections; a dangling order_item_id or session_id violates   *)
(* the foreign key and is answered 409.                                    *)
CreateInspection(iid, sid, passed, user) ==
    /\ Rows < MaxRows
    /\ IF user = NoUser THEN Unchanged("create_inspection", iid, "", 401)
       ELSE IF (iid # NULL /\ iid \notin DOMAIN items)
               \/ (sid # NULL /\ sid \notin DOMAIN sessions)
            THEN Unchanged("create_inspection", iid, "", 409)
       ELSE /\ inspections' = Append(inspections,
                   [order_item_id |-> iid, session_id |-> sid, inspection_type |-> "batch",
                    batch_size |-> NULL, passed |-> passed])
            /\ resp' = Resp("create_inspection", iid, "", 201)
            /\ UNCHANGED <<orders, items, sessions, logs, schedule, deliveries,
                           notifications, capacity, pending>>

(* PUT /qa/inspections/:id/approve *)
ApproveInspection(qid, user) ==
    IF user = NoUser THEN Unchanged("approve", qid, "", 401)
    ELSE IF qid \notin DOMAIN inspections THEN Unchanged("approve", qid, "", 404)
    ELSE LET iid == inspections[qid].order_item_id
         IN  /\ inspections' = [inspections EXCEPT ![qid].passed = 1]
             /\ resp' = Resp("approve", qid, "", 200)
             /\ UNCHANGED <<sessions, logs, schedule, deliveries, notifications, capacity, pending>>
             /\ IF iid # NULL /\ items[iid].status \notin {"F", "dispatched"}
                THEN LET its == [items EXCEPT ![iid].status = "F"]
                     IN  /\ items' = its
                         /\ orders' = sync_order_status(orders, its, items[iid].order_id)
                ELSE UNCHANGED <<orders, items>>

(* POST /order-items/:id/split.  In the UPDATE of the original row the     *)
(* right-hand side quantity*unit_price reads the row as it was before the  *)
(* statement, as SQL evaluates every SET expression on the old row.        *)
(* Variants of the split: a bound that lets the whole quantity be split    *)
(* off; an original row that keeps its quantity.                           *)
SplitTooLargeStrict(new_qty, quantity) == new_qty > quantity

SplitRemainingUnreduced(quantity, new_qty) == quantity

(* if new_qty >= orig["quantity"]: 400 *)
SplitTooLarge(new_qty, quantity) == new_qty >= quantity

(* remaining = orig["quantity"] - new_qty *)
SplitRemaining(quantity, new_qty) == quantity - new_qty

(* A variant of the INSERT of the split that also copies the original's   *)
(* status and produced_quantity.                                           *)
SplitRowCopyingProgress(orig, new_qty, iid) ==
    [order_id |-> orig.order_id, sku_id |-> orig.sku_id, status |-> orig.status,
     quantity |-> new_qty, produced_quantity |-> orig.produced_quantity,
     unit_price |-> orig.unit_price,
     line_total |-> new_qty * orig.unit_price,
     zone_id |-> orig.zone_id, station_id |-> orig.station_id,
     scheduled_date |-> orig.scheduled_date,
     docking_completed_at |-> NULL, split_from_item_id |-> iid]

(* The row the split INSERTs: the columns it names are copied from the     *)
(* original or computed from new_qty; status and produced_quantity are not *)
(* named and take the schema defaults 'T' and 0.                           *)
SplitRow(orig, new_qty, iid) ==
    [order_id |-> orig.order_id, sku_id |-> orig.sku_id, status |-> "T",
     quantity |-> new_qty, produced_quantity |-> 0,
     unit_price |-> orig.unit_price,
     line_total |-> new_qty * orig.unit_price,
     zone_id |-> orig.zone_id, station_id |-> orig.station_id,
     scheduled_date |-> orig.scheduled_date,
     docking_completed_at |-> NULL, split_from_item_id |-> iid]

SplitItem(iid, new_qty) ==
    /\ Len(items) < MaxItems
    /\ IF new_qty <= 0 THEN Unchanged("split", iid, new_qty, 400)
       ELSE IF iid \notin DOMAIN items THEN Unchanged("split", iid, new_qty, 404)
       ELSE IF SplitTooLarge(new_qty, items[iid].quantity)
            THEN Unchanged("split", iid, new_qty, 400)
       ELSE LET orig == items[iid]
                remaining == SplitRemaining(orig.quantity, new_qty)
            IN  /\ items' = Append(
                       [items EXCEPT ![iid].quantity = remaining,
                                     ![iid].line_total = orig.quantity * orig.unit_price],
                       SplitRow(orig, new_qty, iid))
                /\ resp' = Resp("split", iid, new_qty, 201)
                /\ UNCHANGED <<orders, sessions, logs, inspections, schedule, deliveries,
                               notifications, capacity, pending>>

(* POST /orders/:id/stock-complete *)
StockComplete(oid) ==
    IF oid \notin DOMAIN orders \/ orders[oid].is_stock_run # 1
    THEN Unchanged("stock_complete", oid, "", 404)
    ELSE LET its == PromoteItems(items, oid, ItemStatuses \ {"F", "dispatched"}, "F")
         IN  /\ items' = its
             /\ orders' = sync_order_status(orders, its, oid)
             /\ resp' = Resp("stock_complete", oid, "", 200)
             /\ UNCHANGED <<sessions, logs, inspections, schedule, deliveries,
                            notifications, capacity, pending>>

(* POST /delivery-log *)
CreateDelivery(oid, delivery_type) ==
    /\ Rows < MaxRows
    /\ IF oid = NULL THEN Unchanged("create_delivery", oid, "", 400)
       ELSE IF oid \notin DOMAIN orders THEN Unchanged("create_delivery", oid, "", 409)
       ELSE /\ deliveries' = Append(deliveries,
                   [order_id |-> oid, delivery_type |-> delivery_type, status |-> "pending"])
            /\ resp' = Resp("create_delivery", oid, "", 201)
            /\ UNCHANGED <<orders, items, sessions, logs, inspections, schedule,
                           notifications, capacity, pending>>

(* PUT /driver/delivery/status; a status outside delivery_log's CHECK list *)
(* raises IntegrityError on an existing row (500, nothing committed).      *)
DeliveryStatus(dl_id, new_status, user) ==
    IF user = NoUser THEN Unchanged("delivery_status", dl_id, new_status, 401)
    ELSE IF dl_id = NULL \/ new_status = "" THEN Unchanged("delivery_status", dl_id, new_status, 400)
    ELSE IF dl_id \in DOMAIN deliveries /\ new_status \notin DeliveryStatuses
         THEN Unchanged("delivery_status", dl_id, new_status, 500)
    ELSE /\ deliveries' = IF dl_id \in DOMAIN deliveries
                          THEN [deliveries EXCEPT ![dl_id].status = new_status]
                          ELSE deliveries
         /\ orders' = IF new_status \in {"delivered", "collected"}
                         /\ dl_id \in DOMAIN deliveries
                      THEN [orders EXCEPT ![deliveries[dl_id].order_id].status = new_status]
                      ELSE orders
         /\ resp' = Resp("delivery_status", dl_id, new_status, 200)
         /\ UNCHANGED <<items, sessions, logs, inspections, schedule, notifications, capacity, pending>>

(* POST /driver/delivery/complete; shift_found: driver_shifts has the row. *)
(* The cost row references delivery_log, so a missing delivery raises      *)
(* IntegrityError (500, nothing committed).                                *)
DeliveryComplete(dl_id, shift_found, user) ==
    IF user = NoUser THEN Unchanged("delivery_complete", dl_id, "", 401)
    ELSE IF dl_id = NULL THEN Unchanged("delivery_complete", dl_id, "", 400)
    ELSE IF ~shift_found THEN Unchanged("delivery_complete", dl_id, "", 404)
    ELSE IF dl_id \notin DOMAIN deliveries THEN Unchanged("delivery_complete", dl_id, "", 500)
    ELSE LET final_status == IF deliveries[dl_id].delivery_type = "collection"
                             THEN "collected" ELSE "delivered"
         IN  /\ deliveries' = [deliveries EXCEPT ![dl_id].status = final_status]
             /\ orders' = [orders EXCEPT ![deliveries[dl_id].order_id].status = final_status]
             /\ resp' = Resp("delivery_complete", dl_id, final_status, 200)
             /\ UNCHANGED <<items, sessions, logs, inspections, schedule, notifications, capacity, pending>>

(* sync_order_status called on its own, as every handler above calls it   *)
(* after its item update; the response carries the status it returns.      *)
SyncOrder(oid) ==
    /\ orders' = sync_order_status(orders, items, oid)
    /\ resp' = Resp("sync", oid, compute_order_status(orders, items, oid), 200)
    /\ UNCHANGED <<items, sessions, logs, inspections, schedule, deliveries,
                   notifications, capacity, pending>>

(* Requests as they run on their own connection beside other requests:    *)
(* every conn.commit() ends a transaction, so what a handler wrote before  *)
(* it is readable by the other connections before the handler goes on.     *)
(* pending holds the requests that have committed their item UPDATE and    *)
(* have not yet called sync_order_status.                                  *)
(* computed is what sync_order_status has read and computed for the UPDATE *)
(* it has not yet executed: <<new_status, progress>>, or <<>> before.      *)
PendingSync(op, id, oid) == [op |-> op, id |-> id, order_id |-> oid, computed |-> <<>>]

(* PUT /order-items/:id/docking-complete up to its conn.commit() *)
DockingCompleteItemCommit(iid, user) ==
    IF user = NoUser THEN Unchanged("item_docking_complete", iid, "", 401)
    ELSE IF iid \notin DOMAIN items THEN Unchanged("item_docking_complete", iid, "", 404)
    ELSE IF items[iid].status # "C" THEN Unchanged("item_docking_complete", iid, "", 400)
    ELSE /\ items' = [items EXCEPT ![iid].status = "R", ![iid].docking_completed_at = 1]
         /\ pending' = pending \cup
                {PendingSync("item_docking_complete", iid, items[iid].order_id)}
         /\ UNCHANGED <<orders, sessions, logs, inspections, schedule, deliveries,
                        notifications, capacity, resp>>

(* PUT /qa/inspections/:id/approve up to the conn.commit() of its item     *)
(* UPDATE; without an item to promote the request ends there.              *)
ApproveInspectionCommit(qid, user) ==
    IF user = NoUser THEN Unchanged("approve", qid, "", 401)
    ELSE IF qid \notin DOMAIN inspections THEN Unchanged("approve", qid, "", 404)
    ELSE LET iid == inspections[qid].order_item_id
         IN  /\ inspections' = [inspections EXCEPT ![qid].passed = 1]
             /\ UNCHANGED <<orders, sessions, logs, schedule, deliveries, notifications,
                            capacity>>
             /\ IF iid # NULL /\ items[iid].status \notin {"F", "dispatched"}
                THEN /\ items' = [items EXCEPT ![iid].status = "F"]
                     /\ pending' = pending \cup
                            {PendingSync("approve", qid, items[iid].order_id)}
                     /\ resp' = resp
                ELSE /\ resp' = Resp("approve", qid, "", 200)
                     /\ UNCHANGED <<items, pending>>

(* The rest of either request: sync_order_status on the order and the      *)
(* response.                                                               *)
SyncPending(p) ==
    /\ p \in pending
    /\ orders' = sync_order_status(orders, items, p.order_id)
    /\ pending' = pending \ {p}
    /\ resp' = Resp(p.op, p.id, "", 200)
    /\ UNCHANGED <<items, sessions, logs, inspections, schedule, deliveries,
                   notifications, capacity>>

(* sync_order_status in its own two steps: the SELECTs of                  *)
(* compute_order_status and of the item statuses, which run outside any   *)
(* transaction, and then the UPDATE of the order row and the commit.       *)
SyncPendingRead(p) ==
    /\ p \in pending
    /\ p.computed = <<>>
    /\ LET o == sync_order_status(orders, items, p.order_id)[p.order_id]
       IN  pending' = (pending \ {p}) \cup
                          {[p EXCEPT !.computed = <<o.status, o.progress>>]}
    /\ UNCHANGED <<orders, items, sessions, logs, inspections, schedule, deliveries,
                   notifications, capacity, resp>>

SyncPendingWrite(p) ==
    /\ p \in pending
    /\ p.computed # <<>>
    /\ orders' = [orders EXCEPT ![p.order_id].status = p.computed[1],
                                ![p.order_id].progress = p.computed[2]]
    /\ pending' = pending \ {p}
    /\ resp' = Resp(p.op, p.id, "", 200)
    /\ UNCHANGED <<items, sessions, logs, inspections, schedule, deliveries,
                   notifications, capacity>>

(* GET /orders/:id: order_full reads the order row and its item rows.      *)
GetOrder(oid) ==
    IF oid \notin DOMAIN orders THEN Unchanged("get_order", oid, "", 404)
    ELSE Unchanged("get_order", oid,
                   [status |-> orders[oid].status,
                    item_statuses |-> StatusesOf(items, oid)], 200)

(* PUT /production/sessions/:id/log on connection c up to its SELECT: the   *)
(* session row is read and new_total is computed from it in Python; the    *)
(* write transaction only begins with the INSERT that follows.             *)
PendingLog(c, sid, qty_change, read) ==
    [req |-> c, op |-> "log", id |-> sid, qty |-> qty_change, read |-> read]

LogQuantityRead(c, sid, qty_change, user) ==
    /\ \A p \in pending : p.req # c
    /\ IF user = NoUser THEN Unchanged("log", sid, qty_change, 401)
       ELSE IF sid \notin DOMAIN sessions THEN Unchanged("log", sid, qty_change, 404)
       ELSE IF ~SessionAcceptsLog(sessions[sid].status)
            THEN Unchanged("log", sid, qty_change, 400)
       ELSE /\ pending' = pending \cup
                   {PendingLog(c, sid, qty_change, sessions[sid].produced_quantity)}
            /\ UNCHANGED <<orders, items, sessions, logs, inspections, schedule,
                           deliveries, notifications, capacity, resp>>

(* The rest of the request: the INSERT into production_logs, the UPDATE of *)
(* the session with the total computed from the value read, the commit.    *)
LogQuantityWrite(p) ==
    /\ p \in pending
    /\ LET new_total == Max(0, p.read + p.qty)
       IN  /\ logs' = Append(logs, [session_id |-> p.id, quantity_change |-> p.qty,
                                    running_total |-> new_total])
           /\ sessions' = [sessions EXCEPT ![p.id].produced_quantity = new_total]
    /\ pending' = pending \ {p}
    /\ resp' = Resp("log", p.id, p.qty, 200)
    /\ UNCHANGED <<orders, items, inspections, schedule, deliveries, notifications,
                   capacity>>

(* PUT /schedule/:id; a status outside the CHECK of schedule_entries       *)
(* raises in the UPDATE and is answered 500 by api_handler.                *)
ScheduleStatuses == {"planned", "in_progress", "completed", "cancelled"}

UpdatableScheduleFields ==
    {"order_item_id", "zone_id", "station_id", "scheduled_date", "planned_quantity",
     "status"}

UpdateScheduleEntry(sid, body) ==
    IF sid \notin DOMAIN schedule THEN Unchanged("update_schedule", sid, "", 404)
    ELSE IF DOMAIN body \cap UpdatableScheduleFields = {}
         THEN Unchanged("update_schedule", sid, "", 400)
    ELSE IF "status" \in DOMAIN body /\ body.status \notin ScheduleStatuses
         THEN Unchanged("update_schedule", sid, "", 500)
    ELSE /\ schedule' = [schedule EXCEPT ![sid] =
                            [f \in DOMAIN schedule[sid] |->
                                IF f \in DOMAIN body \cap UpdatableScheduleFields
                                THEN body[f] ELSE schedule[sid][f]]]
         /\ resp' = Resp("update_schedule", sid, "", 200)
         /\ UNCHANGED <<orders, items, sessions, logs, inspections, deliveries,
                        notifications, capacity, pending>>

(* PUT /station-capacity *)
SetStationCapacity(station, max_units) ==
    IF station = NULL \/ max_units = NULL
    THEN Unchanged("set_capacity", station, "", 400)
    ELSE /\ capacity' = [capacity EXCEPT ![station] = max_units]
         /\ resp' = Resp("set_capacity", station, "", 200)
         /\ UNCHANGED <<orders, items, sessions, logs, inspections, schedule,
                        deliveries, notifications, pending>>

(* SELECT COALESCE(SUM(planned_quantity),0) FROM schedule_entries          *)
(* WHERE station_id=? AND scheduled_date=?                                 *)
RECURSIVE SumPlanned(_, _, _)
SumPlanned(sched, station, date) ==
    IF sched = <<>> THEN 0
    ELSE (IF Head(sched).station_id = station /\ Head(sched).scheduled_date = date
          THEN Head(sched).planned_quantity ELSE 0)
         + SumPlanned(Tail(sched), station, date)

(* max_capacity = cap_row[0] if cap_row else 9999 *)
DefaultCapacity == 9999

(* A variant of would_exceed that also reports a day filled exactly.       *)
WouldExceedAtLimit(new_total, max_capacity) == new_total >= max_capacity

(* "would_exceed": new_total > max_capacity *)
WouldExceed(new_total, max_capacity) == new_total > max_capacity

(* A variant of the capacity check that books the requested quantity.      *)
CapacityCheckReserving(station, date, additional_qty) ==
    /\ schedule' = Append(schedule,
           [order_id |-> NULL, order_item_id |-> NULL, zone_id |-> 1,
            station_id |-> station, scheduled_date |-> date,
            planned_quantity |-> additional_qty, status |-> "planned"])
    /\ resp' = Resp("capacity_check", station, "", 200)
    /\ UNCHANGED <<orders, items, sessions, logs, inspections, deliveries,
                   notifications, capacity, pending>>

(* GET /capacity-check *)
CapacityCheck(station, date, additional_qty) ==
    IF station = NULL \/ date = NULL
    THEN Unchanged("capacity_check", station, "", 400)
    ELSE LET max_capacity == IF capacity[station] # NULL THEN capacity[station]
                             ELSE DefaultCapacity
             current_total == SumPlanned(schedule, station, date)
             new_total == current_total + additional_qty
             remaining_capacity == Max(0, max_capacity - current_total)
         IN  Unchanged("capacity_check", station,
                       [station_id |-> station, scheduled_date |-> date,
                        max_capacity |-> max_capacity, current_total |-> current_total,
                        additional_quantity |-> additional_qty, new_total |-> new_total,
                        would_exceed |-> WouldExceed(new_total, max_capacity),
                        remaining_capacity |-> remaining_capacity],
                       200)

(* ----------------------------- requests -------------------------------- *)

EmptyBody == [f \in {} |-> NULL]

ItemIdInputs == 1..MaxItems
StatusBodies == {[status |-> st] : st \in ItemStatuses \cup {"delivered"}}
CompleteBodies ==
    {EmptyBody, [force_complete |-> TRUE]}
    \cup {[produced_quantity |-> q] : q \in 0..MaxProduced}

(* Requests on orders and order items. *)
Next ==
    \/ \E o \in OrderIds, p \in Prices, z \in Zones : AddOrderItem(o, MaxQty, p, z)
    \/ \E o \in OrderIds : VerifyOrder(o, "planner", FALSE)
    \/ \E o \in OrderIds, u \in {"planner", "driver"} : DockingCompleteOrder(o, u)
    \/ \E i \in ItemIdInputs : DockingCompleteItem(i, "planner")
    \/ \E o \in OrderIds, st \in OrderStatuses : SetOrderStatus(o, st, "planner")
    \/ \E i \in ItemIdInputs, b \in StatusBodies : UpdateOrderItem(i, b)
    \/ \E i \in ItemIdInputs, k \in 0..MaxQty : SplitItem(i, k)
    \/ \E o \in OrderIds : StockComplete(o)

Spec == Init /\ [][Next]_vars

(* Requests of the production floor and of QA on one order line.           *)
ProdInit ==
    /\ orders = [o \in OrderIds |-> NewOrder("delivery", 0)]
    /\ items = <<>>
    /\ EmptyTables
    /\ resp = Resp("init", NULL, "", 0)

ProdNext ==
    \/ \E o \in OrderIds, q \in 1..MaxQty, p \in Prices, z \in Zones :
           Len(items) < ProdMaxItems /\ AddOrderItem(o, q, p, z)
    \/ \E o \in OrderIds : VerifyOrder(o, "planner", FALSE)
    \/ \E o \in OrderIds : DockingCompleteOrder(o, "planner")
    \/ \E i \in 1..ProdMaxItems \cup {NULL}, s \in Stations, u \in {"floor_worker"} :
           OpenSession(i, s, u)
    \/ \E s \in 1..MaxRows, d \in Deltas :
           Rows < MaxRows /\ LogWithin(s, d, MaxProduced) /\ LogQuantity(s, d, "floor_worker")
    \/ \E s \in 1..MaxRows : PauseSession(s, "floor_worker")
    \/ \E s \in 1..MaxRows : ResumeSession(s, "floor_worker")
    \/ \E s \in 1..MaxRows, b \in CompleteBodies : CompleteSession(s, b, "floor_worker")
    \/ \E i \in 1..ProdMaxItems : CreateInspection(i, NULL, 0, "qa_lead")
    \/ \E q \in 1..MaxRows : ApproveInspection(q, "qa_lead")

ProdSpec == ProdInit /\ [][ProdNext]_vars

(* The aggregator applied to every order status and every collection of    *)
(* item statuses of up to AggMaxItems items.                               *)
AggItem(oid, st) ==
    [order_id |-> oid, sku_id |-> 1, status |-> st, quantity |-> 1,
     produced_quantity |-> 0, unit_price |-> 1, line_total |-> 1, zone_id |-> 1,
     station_id |-> NULL, scheduled_date |-> NULL, docking_completed_at |-> NULL,
     split_from_item_id |-> NULL]

AggItemSeqs ==
    UNION {[1..n -> {AggItem(o, st) : o \in OrderIds, st \in ItemStatuses}]
           : n \in 0..AggMaxItems}

AggInit ==
    /\ \E st \in OrderStatuses :
           orders = [o \in OrderIds |->
                        IF o = 1 THEN [NewOrder("delivery", 0) EXCEPT !.status = st]
                        ELSE NewOrder("delivery", 0)]
    /\ items \in AggItemSeqs
    /\ EmptyTables
    /\ resp = Resp("init", NULL, "", 0)

AggNext == \E o \in OrderIds : SyncOrder(o)

AggSpec == AggInit /\ [][AggNext]_vars

(* Order lines of up to SplitMaxQty units, at two unit prices, split at    *)
(* every requested quantity from -1 to SplitMaxQty.                        *)
SplitPrices == {1, 2}

SplitNext ==
    \/ \E o \in OrderIds, q \in 1..SplitMaxQty, p \in SplitPrices, z \in Zones :
           AddOrderItem(o, q, p, z)
    \/ \E o \in OrderIds : VerifyOrder(o, "planner", FALSE)
    \/ \E o \in OrderIds : DockingCompleteOrder(o, "planner")
    \/ \E i \in ItemIdInputs, k \in -1..SplitMaxQty : SplitItem(i, k)

SplitSpec == ProdInit /\ [][SplitNext]_vars

(* Quantities logged against sessions in steps of -5, +10 and +20, up to   *)
(* LogMaxLogs log entries and a running total of LogMaxProduced, on up to  *)
(* LogMaxSessions sessions that are bound to no order line.                *)
LogDeltas == {-5, 10, 20}

LogNext ==
    \/ \E s \in Stations :
           Len(sessions) < LogMaxSessions /\ OpenSession(NULL, s, "floor_worker")
    \/ \E s \in 1..MaxRows, d \in LogDeltas :
           /\ Len(logs) < LogMaxLogs
           /\ LogWithin(s, d, LogMaxProduced)
           /\ LogQuantity(s, d, "floor_worker")
    \/ \E s \in 1..MaxRows : PauseSession(s, "floor_worker")
    \/ \E s \in 1..MaxRows : ResumeSession(s, "floor_worker")
    \/ \E s \in 1..MaxRows : CompleteSession(s, EmptyBody, "floor_worker")

LogSpec == ProdInit /\ [][LogNext]_vars

(* Planning: schedule entries of 50 and 400 units on two stations and two  *)
(* dates, entries cancelled, a capacity configured for the station without *)
(* one, and capacity checks for 0, 50 and 100 more units.                  *)
CapDates == {1, 2}
PlannedInputs == {50, 400}
AdditionalInputs == {0, 50, 100}
ScheduleBodies == {[status |-> "cancelled"], [status |-> "void"]}

CapNext ==
    \/ \E o \in OrderIds, p \in Prices, z \in Zones :
           Len(items) < ProdMaxItems /\ AddOrderItem(o, MaxQty, p, z)
    \/ \E i \in 1..ProdMaxItems, z \in Zones, st \in CapStations, d \in CapDates,
          q \in PlannedInputs :
           CreateScheduleForItem(i, z, st, d, q, "planner")
    \/ \E e \in 1..MaxRows, b \in ScheduleBodies : UpdateScheduleEntry(e, b)
    \/ \E st \in CapStations : SetStationCapacity(st, 500)
    \/ \E st \in CapStations, d \in CapDates, a \in AdditionalInputs :
           CapacityCheck(st, d, a)

CapSpec == ProdInit /\ [][CapNext]_vars

(* Verification: items are added, moved by PUT /order-items/:id (which     *)
(* does not touch the order), verified with and without a client e-mail    *)
(* address and with and without a session, and docked.                     *)
VerifyUsers == {"planner", NoUser}

VerifyNext ==
    \/ \E o \in OrderIds, z \in Zones : AddOrderItem(o, 1, 1, z)
    \/ \E o \in OrderIds, u \in VerifyUsers, e \in BOOLEAN : VerifyOrder(o, u, e)
    \/ \E i \in ItemIdInputs, b \in StatusBodies : UpdateOrderItem(i, b)
    \/ \E o \in OrderIds : DockingCompleteOrder(o, "planner")

VerifySpec == ProdInit /\ [][VerifyNext]_vars

(* Requests running side by side: item docking and QA approval take their  *)
(* two steps, and orders are read in between.                              *)
TxnNext ==
    \/ \E o \in OrderIds, z \in Zones : AddOrderItem(o, 1, 1, z)
    \/ \E o \in OrderIds : VerifyOrder(o, "planner", FALSE)
    \/ \E i \in ItemIdInputs : DockingCompleteItemCommit(i, "planner")
    \/ \E i \in ItemIdInputs : CreateInspection(i, NULL, 0, "qa_lead")
    \/ \E q \in 1..MaxRows : ApproveInspectionCommit(q, "qa_lead")
    \/ \E p \in pending : SyncPending(p)
    \/ \E o \in OrderIds : GetOrder(o)

TxnSpec == ProdInit /\ [][TxnNext]_vars

(* Deliveries: orders for delivery and for collection, delivery_log rows   *)
(* of either type for them, and the driver's status and completion         *)
(* requests.                                                               *)
DeliveryTypes == {"delivery", "collection"}
DriverStatusInputs == {"in_transit", "delivered", "collected", "lost"}

DeliveryInit ==
    /\ orders \in [OrderIds -> {NewOrder(dt, 0) : dt \in DeliveryTypes}]
    /\ items = <<>>
    /\ EmptyTables
    /\ resp = Resp("init", NULL, "", 0)

DeliveryNext ==
    \/ \E o \in OrderIds, z \in Zones :
          Len(items) < ProdMaxItems /\ AddOrderItem(o, 1, 1, z)
    \/ \E o \in OrderIds, st \in {"F", "dispatched"} : SetOrderStatus(o, st, "planner")
    \/ \E o \in OrderIds \cup {NULL}, dt \in DeliveryTypes :
          Len(deliveries) < MaxDeliveries /\ CreateDelivery(o, dt)
    \/ \E d \in 1..MaxRows, st \in DriverStatusInputs : DeliveryStatus(d, st, "driver")
    \/ \E d \in 1..MaxRows, sf \in BOOLEAN : DeliveryComplete(d, sf, "driver")

DeliverySpec == DeliveryInit /\ [][DeliveryNext]_vars

(* Completion of sessions by users of every role, with and without the     *)
(* force_complete flag.                                                    *)
ForceBody == [force_complete |-> TRUE]

ForceNext ==
    \/ \E o \in OrderIds, z \in Zones :
          Len(items) < ProdMaxItems /\ AddOrderItem(o, MaxQty, 1, z)
    \/ \E o \in OrderIds : VerifyOrder(o, "planner", FALSE)
    \/ \E o \in OrderIds : DockingCompleteOrder(o, "planner")
    \/ \E i \in 1..ProdMaxItems, s \in Stations : OpenSession(i, s, "floor_worker")
    \/ \E s \in 1..MaxRows, d \in {1} :
          Rows < MaxRows /\ LogWithin(s, d, MaxProduced) /\ LogQuantity(s, d, "floor_worker")
    \/ \E s \in 1..MaxRows, b \in {EmptyBody, ForceBody}, u \in Roles \cup {NoUser} :
          CompleteSession(s, b, u)

ForceSpec == ProdInit /\ [][ForceNext]_vars

(* Requests that are refused: missing rows, missing users, state guards,   *)
(* values the schema rejects, and a produced_quantity set to null by       *)
(* PUT /order-items/:id.                                                   *)
ErrBodies == {[status |-> "R"], [status |-> "void"], [produced_quantity |-> NullQuantity]}
ErrUsers == {"planner", NoUser}

ErrNext ==
    \/ \E o \in OrderIds, q \in {0, MaxQty}, z \in Zones :
          Len(items) < ProdMaxItems /\ AddOrderItem(o, q, 1, z)
    \/ \E o \in OrderIds, u \in ErrUsers : VerifyOrder(o, u, FALSE)
    \/ \E i \in ItemIdInputs, u \in ErrUsers : DockingCompleteItem(i, u)
    \/ \E o \in OrderIds, st \in {"R", "void"} : SetOrderStatus(o, st, "planner")
    \/ \E i \in ItemIdInputs, b \in ErrBodies : UpdateOrderItem(i, b)
    \/ \E i \in ItemIdInputs, s \in Stations \cup {NULL} :
          Len(sessions) < ErrMaxSessions /\ OpenSession(i, s, "floor_worker")
    \/ \E s \in 1..MaxRows :
          Rows < MaxRows /\ LogWithin(s, 1, MaxProduced) /\ LogQuantity(s, 1, "floor_worker")
    \/ \E s \in 1..MaxRows, b \in {EmptyBody, ForceBody}, u \in ErrUsers :
          CompleteSession(s, b, u)
    \/ \E q \in 1..MaxRows : ApproveInspection(q, "qa_lead")
    \/ \E i \in ItemIdInputs, k \in {0, MaxQty} : SplitItem(i, k)

ErrSpec == ProdInit /\ [][ErrNext]_vars

(* Sessions opened on items in every status: items are added, verified,    *)
(* docked and set to F or dispatched by PUT /order-items/:id.              *)
FinishedBodies == {[status |-> "F"], [status |-> "dispatched"]}

SessionNext ==
    \/ \E o \in OrderIds, z \in Zones : AddOrderItem(o, 1, 1, z)
    \/ \E o \in OrderIds : VerifyOrder(o, "planner", FALSE)
    \/ \E o \in OrderIds : DockingCompleteOrder(o, "planner")
    \/ \E i \in ItemIdInputs, b \in FinishedBodies : UpdateOrderItem(i, b)
    \/ \E i \in ItemIdInputs \cup {NULL}, s \in Stations \cup {NULL}, u \in ErrUsers :
          Len(sessions) < LogMaxSessions /\ OpenSession(i, s, u)

SessionSpec == ProdInit /\ [][SessionNext]_vars

(* Planning: schedule entries are created for single items and for whole   *)
(* orders, on station 1 for date 1 or station 2 for date 2, while the      *)
(* items are verified, docked, started and finished.                       *)
PlanUsers == {"planner", NoUser}

PlanNext ==
    \/ \E o \in OrderIds, z \in Zones : AddOrderItem(o, 1, 1, z)
    \/ \E o \in OrderIds : VerifyOrder(o, "planner", FALSE)
    \/ \E o \in OrderIds : DockingCompleteOrder(o, "planner")
    \/ \E o \in OrderIds : SetOrderStatus(o, "P", "planner")
    \/ \E i \in ItemIdInputs, b \in FinishedBodies : UpdateOrderItem(i, b)
    \/ \E i \in ItemIdInputs, z \in Zones, k \in CapDates, u \in PlanUsers :
          Len(schedule) < PlanMaxEntries /\ CreateScheduleForItem(i, z, k, k, NULL, u)
    \/ \E o \in OrderIds, z \in Zones \cup {NULL}, k \in CapDates :
          Len(schedule) < PlanMaxEntries /\ CreateScheduleForOrder(o, z, k, k, 1, "planner")

PlanSpec == ProdInit /\ [][PlanNext]_vars

(* Docking with two orders: items are added to either order, the orders    *)
(* are verified, and docking is completed for an order or for one item,    *)
(* by a planner, by a driver and without a session.                        *)
DockOrderIds == 1..DockOrders
DockUsers == {"planner", "driver", NoUser}

DockInit ==
    /\ orders = [o \in DockOrderIds |-> NewOrder("delivery", 0)]
    /\ items = <<>>
    /\ EmptyTables
    /\ resp = Resp("init", NULL, "", 0)

DockNext ==
    \/ \E o \in DockOrderIds, z \in Zones : AddOrderItem(o, 1, 1, z)
    \/ \E o \in DockOrderIds : VerifyOrder(o, "planner", FALSE)
    \/ \E o \in DockOrderIds, u \in DockUsers : DockingCompleteOrder(o, u)
    \/ \E i \in ItemIdInputs, u \in DockUsers : DockingCompleteItem(i, u)

DockSpec == DockInit /\ [][DockNext]_vars

(* Quantities logged on one session from two connections at a time.        *)
Connections == {1, 2}

LogTxnNext ==
    \/ \E s \in Stations :
          Len(sessions) < ErrMaxSessions /\ OpenSession(NULL, s, "floor_worker")
    \/ \E c \in Connections, s \in 1..ErrMaxSessions, d \in LogDeltas :
          /\ Len(logs) + Cardinality(pending) < LogMaxLogs
          /\ LogWithin(s, d, LogMaxProduced)
          /\ LogQuantityRead(c, s, d, "floor_worker")
    \/ \E p \in pending : LogQuantityWrite(p)
    \/ \E s \in 1..ErrMaxSessions : PauseSession(s, "floor_worker")
    \/ \E s \in 1..ErrMaxSessions : ResumeSession(s, "floor_worker")

LogTxnSpec == ProdInit /\ [][LogTxnNext]_vars

(* The order item a request under way has updated. *)
ItemOfRequest(p) ==
    IF p.op = "approve" THEN inspections[p.id].order_item_id ELSE p.id

(* Item docking and QA approval on different items of one order side by    *)
(* side, each committing its item update and then running                  *)
(* sync_order_status; items are added, verified and inspected while no     *)
(* such request is under way.                                              *)
SyncTxnNext ==
    \/ \E o \in OrderIds, z \in Zones : pending = {} /\ AddOrderItem(o, 1, 1, z)
    \/ \E o \in OrderIds : pending = {} /\ VerifyOrder(o, "planner", FALSE)
    \/ \E i \in ItemIdInputs :
          pending = {} /\ Len(inspections) < ErrMaxSessions
          /\ CreateInspection(i, NULL, 0, "qa_lead")
    \/ \E i \in ItemIdInputs :
          /\ \A p \in pending : ItemOfRequest(p) # i
          /\ DockingCompleteItemCommit(i, "planner")
    \/ \E q \in 1..ErrMaxSessions :
          /\ q \in DOMAIN inspections
                => \A p \in pending : ItemOfRequest(p) # inspections[q].order_item_id
          /\ ApproveInspectionCommit(q, "qa_lead")
    \/ \E p \in pending : SyncPendingRead(p)
    \/ \E p \in pending : SyncPendingWrite(p)

SyncTxnSpec == ProdInit /\ [][SyncTxnNext]_vars

(* Splits of order lines in any status and with any produced_quantity,     *)
(* NULL included, set through PUT /order-items/:id.                        *)
FrameBodies ==
    {[status |-> st] : st \in ItemStatuses}
    \cup {[produced_quantity |-> q] : q \in {1, NullQuantity}}

SplitFrameNext ==
    \/ \E o \in OrderIds, z \in Zones : AddOrderItem(o, MaxQty, 1, z)
    \/ \E i \in ItemIdInputs, b \in FrameBodies : UpdateOrderItem(i, b)
    \/ \E i \in ItemIdInputs, k \in 0..MaxQty : SplitItem(i, k)

SplitFrameSpec == ProdInit /\ [][SplitFrameNext]_vars

(* ------------------------------ properties ----------------------------- *)

Terminal == {"delivered", "collected"}

(* The response of a request that ran sync_order_status, or that may have. *)
RanAggregator(r) ==
    /\ r.code \in {200, 201}
    /\ \/ r.op \in {"verify", "docking_complete", "item_docking_complete",
                    "schedule_item", "schedule_order", "open_session", "approve",
                    "stock_complete", "sync"}
       \/ r.op = "set_order_status" /\ r.arg \in {"P", "F"}

(* C1: every order that has at least one item and whose status is neither  *)
(* delivered nor collected has the status the aggregator computes from its *)
(* items' statuses.                                                        *)
C1_OrderStatusIsAggregate ==
    \A o \in OrderIds :
        (ItemIdsOf(items, o) # {} /\ orders[o].status \notin Terminal)
        => orders[o].status = compute_order_status(orders, items, o)

(* C2: no request moves an item to an earlier status in the order          *)
(* T < C < R < P < F < dispatched.                                         *)
C2_ItemStatusNeverRegresses ==
    [][\A i \in DOMAIN items : Rank(items'[i].status) >= Rank(items[i].status)]_vars

(* C3: an item goes from C to R only in a docking-complete request (batch  *)
(* or single item).                                                        *)
C3_CToROnlyByDocking ==
    [][\A i \in DOMAIN items :
          (items[i].status = "C" /\ items'[i].status = "R")
          => resp'.op \in {"docking_complete", "item_docking_complete"}]_vars

(* C4: a generic order status update that requests R on an order in C is   *)
(* answered with an error and leaves the order and all items as they were. *)
C4_DirectCToRRejected ==
    [][(/\ resp'.op = "set_order_status"
        /\ resp'.arg = "R"
        /\ resp'.id \in DOMAIN orders
        /\ orders[resp'.id].status = "C")
       => (resp'.code >= 400 /\ orders' = orders /\ items' = items)]_vars

C4_Witness ==
    /\ resp.op = "set_order_status"
    /\ resp.arg = "R"
    /\ resp.code = 400
    /\ orders[resp.id].status = "C"
    /\ \E i \in ItemIdsOf(items, resp.id) : items[i].status = "C"

(* C5: an item becomes F only in a QA approval or a session completion     *)
(* (force-complete); no other request sets an item to F.                   *)
C5_FinishedOnlyByQa ==
    [][\A i \in DOMAIN items :
          (items[i].status # "F" /\ items'[i].status = "F")
          => resp'.op \in {"approve", "complete_session"}]_vars

(* C6: completing a session whose item then has produced_quantity >=       *)
(* quantity and is neither F nor dispatched adds exactly one inspection,   *)
(* with passed = 0, for that item, and changes no item status and no order.*)
C6_CompletionOpensOnePendingInspection ==
    [][(/\ resp'.op = "complete_session"
        /\ resp'.code = 200
        /\ sessions[resp'.id].order_item_id # NULL
        /\ LET i == sessions[resp'.id].order_item_id
           IN  /\ items'[i].produced_quantity >= items'[i].quantity
               /\ items[i].status \notin {"F", "dispatched"})
       => (LET i == sessions[resp'.id].order_item_id
               n == Len(inspections)
           IN  /\ Len(inspections') = n + 1
               /\ SubSeq(inspections', 1, n) = inspections
               /\ inspections'[n + 1].order_item_id = i
               /\ inspections'[n + 1].session_id = resp'.id
               /\ inspections'[n + 1].passed = 0
               /\ \A j \in DOMAIN items : items'[j].status = items[j].status
               /\ orders' = orders)]_vars

C6_Witness ==
    /\ resp.op = "complete_session"
    /\ resp.code = 200
    /\ sessions[resp.id].status = "completed"
    /\ sessions[resp.id].order_item_id # NULL
    /\ LET i == sessions[resp.id].order_item_id
       IN  /\ items[i].produced_quantity >= items[i].quantity
           /\ items[i].status = "P"
           /\ orders[items[i].order_id].status = "P"
           /\ Len(inspections) = 1
           /\ inspections[1].order_item_id = i
           /\ inspections[1].session_id = resp.id
           /\ inspections[1].passed = 0

(* The precedence of section 4.2 over the set of an order's item ids.      *)
StatusSet(oid) == {items[i].status : i \in ItemIdsOf(items, oid)}

Precedence(current, S) ==
    CASE current \in Terminal -> current
      [] current \notin Terminal /\ S \subseteq {"F", "dispatched"} /\ "dispatched" \in S
           -> "dispatched"
      [] current \notin Terminal /\ S = {"F"} -> "F"
      [] current \notin Terminal /\ ~(S \subseteq {"F", "dispatched"}) /\ "P" \in S -> "P"
      [] current \notin Terminal /\ ~(S \subseteq {"F", "dispatched"}) /\ "P" \notin S
         /\ "R" \in S -> "R"
      [] current \notin Terminal /\ ~(S \subseteq {"F", "dispatched"}) /\ "P" \notin S
         /\ "R" \notin S /\ "C" \in S -> "C"
      [] OTHER -> "T"

ItemsCRF(oid) ==
    /\ Cardinality(ItemIdsOf(items, oid)) = 3
    /\ StatusSet(oid) = {"C", "R", "F"}

(* C8 as stated: on an order with exactly three items, of statuses C, R    *)
(* and F, and a status other than delivered / collected, the aggregator    *)
(* returns C and persists the progress "1/3 items complete".               *)
C8_ScenarioReturnsC ==
    (resp.op = "sync" /\ ItemsCRF(resp.id) /\ orders[resp.id].status \notin Terminal)
    => /\ resp.arg = "C"
       /\ orders[resp.id].status = "C"
       /\ orders[resp.id].progress = "1/3 items complete"

(* C8 amended: on such an order the aggregator returns R (R precedes C)    *)
(* and persists the progress "1/3 items complete".                         *)
C8_ScenarioReturnsR ==
    (resp.op = "sync" /\ ItemsCRF(resp.id) /\ orders[resp.id].status \notin Terminal)
    => /\ resp.arg = "R"
       /\ orders[resp.id].status = "R"
       /\ orders[resp.id].progress = "1/3 items complete"

C8_Witness ==
    /\ resp.op = "sync"
    /\ ItemsCRF(resp.id)
    /\ resp.arg = "R"
    /\ orders[resp.id].progress = "1/3 items complete"

(* C9: once an order is dispatched, delivered or collected, no request     *)
(* that runs the aggregator changes the order's status.                    *)
C9_LogisticsStatusSticky ==
    [][\A o \in OrderIds :
          (orders[o].status \in {"dispatched", "delivered", "collected"}
           /\ RanAggregator(resp'))
          => orders'[o].status = orders[o].status]_vars

(* C10: right after sync_order_status ran on an order, running it again    *)
(* leaves the order's status and progress as they are and returns the same *)
(* status.                                                                 *)
C10_SyncIdempotent ==
    resp.op = "sync"
    => /\ sync_order_status(orders, items, resp.id) = orders
       /\ compute_order_status(orders, items, resp.id) = resp.arg

C10_Witness ==
    /\ resp.op = "sync"
    /\ ItemIdsOf(items, resp.id) # {}
    /\ StatusSet(resp.id) = {"T", "F"}
    /\ orders[resp.id].progress = "1/2 items complete"

(* The progress string of an order's items as they are now.                *)
ProgressOf(oid) ==
    ProgressString(CountIn(StatusesOf(items, oid), {"F", "dispatched"}),
                   Len(StatusesOf(items, oid)))

(* C11: when a docking-complete, split, stock-run completion or dispatch   *)
(* request has changed the statuses or the number of an order's items, the *)
(* order's persisted progress string on return is                          *)
(* "{items that are F or dispatched}/{items} items complete".              *)
C11_ProgressFollowsItems ==
    [][\A o \in OrderIds :
          (/\ StatusesOf(items', o) # StatusesOf(items, o)
           /\ \/ resp'.op \in {"docking_complete", "item_docking_complete", "split",
                               "stock_complete"}
              \/ resp'.op = "set_order_status" /\ resp'.arg = "dispatched")
          => orders'[o].progress = ProgressOf(o)']_vars

(* C12: sync_order_status on an order that has no items leaves the order's *)
(* status as it is, whatever it is, and returns it.                        *)
C12_SyncWithoutItemsKeepsStatus ==
    [][(resp'.op = "sync" /\ ItemIdsOf(items, resp'.id) = {})
       => /\ orders'[resp'.id].status = orders[resp'.id].status
          /\ resp'.arg = orders[resp'.id].status]_vars

C12_Witness ==
    /\ resp.op = "sync"
    /\ ItemIdsOf(items, resp.id) = {}
    /\ orders[resp.id].status = "P"
    /\ orders[resp.id].progress = "0/0 items complete"

(* C13: a split of an item of quantity Q at K, 0 < K < Q, succeeds, leaves *)
(* the original with Q - K, and appends exactly one item of quantity K in  *)
(* the same order, with the same SKU and unit price and                    *)
(* split_from_item_id the original's id; every other item is untouched.    *)
C13_SplitConservesQuantity ==
    [][(/\ resp'.op = "split"
        /\ resp'.id \in DOMAIN items
        /\ 0 < resp'.arg
        /\ resp'.arg < items[resp'.id].quantity)
       => (LET i == resp'.id
               K == resp'.arg
               Q == items[i].quantity
               n == Len(items)
           IN  /\ resp'.code = 201
               /\ Len(items') = n + 1
               /\ \A j \in DOMAIN items : j # i => items'[j] = items[j]
               /\ items'[i].quantity = Q - K
               /\ items'[i].order_id = items[i].order_id
               /\ items'[i].sku_id = items[i].sku_id
               /\ items'[i].unit_price = items[i].unit_price
               /\ items'[n + 1].quantity = K
               /\ items'[n + 1].order_id = items[i].order_id
               /\ items'[n + 1].sku_id = items[i].sku_id
               /\ items'[n + 1].unit_price = items[i].unit_price
               /\ items'[n + 1].split_from_item_id = i
               /\ items'[i].quantity + items'[n + 1].quantity = Q)]_vars

C13_Witness ==
    /\ resp.op = "split"
    /\ resp.code = 201
    /\ resp.arg = 1
    /\ Len(items) = 2
    /\ items[resp.id].quantity = 2
    /\ items[2].quantity = 1
    /\ items[2].unit_price = 2
    /\ items[2].split_from_item_id = resp.id

(* C14: after a successful split, line_total = quantity * unit_price on    *)
(* the original row and on the new row.                                    *)
C14_SplitLineTotals ==
    (resp.op = "split" /\ resp.code = 201)
    => /\ items[resp.id].line_total
            = items[resp.id].quantity * items[resp.id].unit_price
       /\ items[Len(items)].line_total
            = items[Len(items)].quantity * items[Len(items)].unit_price

(* C15: a split at K <= 0, or at K >= Q on an item of quantity Q, is       *)
(* answered with an error and leaves every item as it was.                 *)
C15_SplitOutOfBoundsRejected ==
    [][(/\ resp'.op = "split"
        /\ \/ resp'.arg <= 0
           \/ resp'.id \in DOMAIN items /\ resp'.arg >= items[resp'.id].quantity)
       => (resp'.code >= 400 /\ items' = items)]_vars

C15_Witness ==
    /\ resp.op = "split"
    /\ resp.code = 400
    /\ resp.id \in DOMAIN items
    /\ resp.arg = items[resp.id].quantity
    /\ items[resp.id].quantity = 3

(* C16: a quantity d logged on an active session sets the session's        *)
(* produced_quantity to max(0, previous + d) and appends one log entry     *)
(* with quantity_change d and that total as running_total, so that neither *)
(* is negative.                                                            *)
C16_LogClampsRunningTotal ==
    [][(/\ resp'.op = "log"
        /\ resp'.id \in DOMAIN sessions
        /\ sessions[resp'.id].status = "active")
       => (LET sid == resp'.id
               d == resp'.arg
               prev == sessions[sid].produced_quantity
               total == IF prev + d >= 0 THEN prev + d ELSE 0
               n == Len(logs)
           IN  /\ resp'.code = 200
               /\ sessions'[sid].produced_quantity = total
               /\ sessions'[sid].produced_quantity >= 0
               /\ \A t \in DOMAIN sessions : t # sid => sessions'[t] = sessions[t]
               /\ Len(logs') = n + 1
               /\ SubSeq(logs', 1, n) = logs
               /\ logs'[n + 1].session_id = sid
               /\ logs'[n + 1].quantity_change = d
               /\ logs'[n + 1].running_total = total
               /\ logs'[n + 1].running_total >= 0)]_vars

(* From 10, the deltas -5 and +20 give the running totals 5 and 25.        *)
C16_Witness ==
    /\ resp.op = "log"
    /\ resp.code = 200
    /\ Len(logs) = 3
    /\ \A k \in 1..3 : logs[k].session_id = resp.id
    /\ logs[1].running_total = 10
    /\ logs[2].quantity_change = -5
    /\ logs[2].running_total = 5
    /\ logs[3].quantity_change = 20
    /\ logs[3].running_total = 25
    /\ sessions[resp.id].produced_quantity = 25

(* C17: a quantity logged against a paused or completed session is         *)
(* answered with an error; the sessions and the production log stay as     *)
(* they were.                                                              *)
C17_LogOnInactiveSessionRejected ==
    [][(/\ resp'.op = "log"
        /\ resp'.id \in DOMAIN sessions
        /\ sessions[resp'.id].status \in {"paused", "completed"})
       => (resp'.code >= 400 /\ sessions' = sessions /\ logs' = logs)]_vars

C17_Witness ==
    /\ resp.op = "log"
    /\ resp.code = 400
    /\ resp.id \in DOMAIN sessions
    /\ sessions[resp.id].status = "paused"
    /\ sessions[resp.id].produced_quantity = 10
    /\ Len(logs) = 1

(* C18: a capacity check answers with max_capacity the station's           *)
(* configured daily maximum (9999 when it has none), new_total =           *)
(* current_total + additional, would_exceed = (new_total > max_capacity)   *)
(* and remaining_capacity = max(0, max_capacity - current_total); with a   *)
(* maximum of 500, 450 planned and 100 more it reports would_exceed and a  *)
(* remaining capacity of 50.                                               *)
C18_CapacityCheckResult ==
    (resp.op = "capacity_check" /\ resp.code = 200)
    => LET b == resp.arg
           configured == capacity[resp.id]
       IN  /\ b.max_capacity = IF configured # NULL THEN configured ELSE 9999
           /\ b.new_total = b.current_total + b.additional_quantity
           /\ b.would_exceed = (b.new_total > b.max_capacity)
           /\ b.remaining_capacity
                = IF b.max_capacity - b.current_total >= 0
                  THEN b.max_capacity - b.current_total ELSE 0
           /\ (b.max_capacity = 500 /\ b.current_total = 450
               /\ b.additional_quantity = 100)
              => (b.would_exceed = TRUE /\ b.remaining_capacity = 50)

C18_Witness ==
    /\ resp.op = "capacity_check"
    /\ resp.code = 200
    /\ capacity[resp.id] = 500
    /\ resp.arg.current_total = 450
    /\ resp.arg.additional_quantity = 100
    /\ resp.arg.would_exceed = TRUE
    /\ resp.arg.remaining_capacity = 50

(* The planned quantities of the entries of a station and date that are    *)
(* not cancelled.                                                          *)
RECURSIVE SumPlannedNotCancelled(_, _, _)
SumPlannedNotCancelled(sched, station, date) ==
    IF sched = <<>> THEN 0
    ELSE (IF /\ Head(sched).station_id = station
             /\ Head(sched).scheduled_date = date
             /\ Head(sched).status # "cancelled"
          THEN Head(sched).planned_quantity ELSE 0)
         + SumPlannedNotCancelled(Tail(sched), station, date)

(* C19: the current_total of a capacity check is the sum of                *)
(* planned_quantity over the station's entries of that date whose status   *)
(* is not cancelled.                                                       *)
C19_CancelledEntriesNotCounted ==
    (resp.op = "capacity_check" /\ resp.code = 200)
    => resp.arg.current_total
         = SumPlannedNotCancelled(schedule, resp.id, resp.arg.scheduled_date)

(* C20: a capacity check changes no table, and a schedule request for an   *)
(* existing item by an authenticated planner is answered 201 with its      *)
(* entry added, whatever the station's planned total and daily maximum.    *)
C20_CapacityCheckIsAdvisory ==
    [][/\ resp'.op = "capacity_check"
          => UNCHANGED <<orders, items, sessions, logs, inspections, schedule,
                         deliveries, notifications, capacity, pending>>
       /\ (resp'.op = "schedule_item" /\ resp'.id \in DOMAIN items)
          => /\ resp'.code = 201
             /\ Len(schedule') = Len(schedule) + 1
             /\ SubSeq(schedule', 1, Len(schedule)) = schedule]_vars

(* An entry accepted on a station and date already planned over the        *)
(* station's daily maximum.                                                *)
C20_Witness ==
    /\ resp.op = "schedule_item"
    /\ resp.code = 201
    /\ Len(schedule) = 3
    /\ LET e == schedule[Len(schedule)]
       IN  /\ capacity[e.station_id] = 500
           /\ SumPlanned(schedule, e.station_id, e.scheduled_date) = 1200
           /\ \A k \in DOMAIN schedule : schedule[k].status = "planned"

(* C21: PUT /orders/:id/verify on an order whose status is neither T nor C *)
(* is rejected and leaves is_verified, the order status, every item and    *)
(* the notifications as they were; on an order in T or C (by a signed-in   *)
(* user) it sets is_verified, moves every item of the order in T to C,     *)
(* leaves every other item's status as it was, and the order status        *)
(* becomes the aggregate of the new item statuses.                         *)
C21_VerifyGuardAndEffect ==
    [][(resp'.op = "verify" /\ resp'.id \in DOMAIN orders) =>
          LET o == resp'.id
          IN  IF orders[o].status \notin {"T", "C"}
              THEN /\ resp'.code \in {400, 401}
                   /\ UNCHANGED <<orders, items, notifications>>
              ELSE resp'.code # 401 =>
                   /\ resp'.code = 200
                   /\ orders'[o].is_verified = 1
                   /\ Len(items') = Len(items)
                   /\ \A i \in DOMAIN items :
                         items'[i].status =
                             IF items[i].order_id = o /\ items[i].status = "T"
                             THEN "C" ELSE items[i].status
                   /\ orders'[o].status = compute_order_status(orders, items', o)]_vars

(* A verification of an order in T with one item in T and one in R has     *)
(* been accepted: the T item is in C, the R item still in R, the order R.  *)
C21_Witness ==
    /\ resp.op = "verify" /\ resp.code = 200
    /\ orders[resp.id].is_verified = 1
    /\ orders[resp.id].status = "R"
    /\ Len(items) = 2
    /\ items[1].status = "C" /\ items[2].status = "R"
    /\ notifications # <<>>

(* C22: the aggregator runs in the transaction of the item update that     *)
(* triggers it: a request that reads an order while another request is     *)
(* between its item update and its sync_order_status reads an order status *)
(* that is the aggregate of the item statuses it reads.                    *)
C22_NoReadBetweenItemUpdateAndSync ==
    [][(resp'.op = "get_order" /\ resp'.code = 200
        /\ UNCHANGED <<orders, items, pending>>)
       => \A p \in pending :
             p.order_id = resp'.id
             => resp'.arg.status =
                    AggregateStatuses(resp'.arg.status, resp'.arg.item_statuses)]_vars

(* C23: when the driver workflow has recorded the completion of a delivery *)
(* (POST /driver/delivery/complete, or PUT /driver/delivery/status with    *)
(* delivered or collected), the order and every item of it have the same   *)
(* terminal status: collected if the order's delivery_type is collection,  *)
(* delivered otherwise.                                                    *)
C23_DeliveryCompletionTerminalValue ==
    [][(/\ resp'.code = 200
        /\ \/ resp'.op = "delivery_complete"
           \/ resp'.op = "delivery_status" /\ resp'.arg \in Terminal
        /\ resp'.id \in DOMAIN deliveries)
       => LET o == deliveries[resp'.id].order_id
              v == IF orders[o].delivery_type = "collection"
                   THEN "collected" ELSE "delivered"
          IN  /\ orders'[o].status = v
              /\ \A i \in ItemIdsOf(items', o) : items'[i].status = v]_vars

(* C24: completing a session with the force-complete flag while the item's *)
(* produced quantity is below the ordered quantity creates a pending QA    *)
(* inspection only for a user whose role is authorized to force-complete:  *)
(* whenever a session stands on such an item, there is a role whose        *)
(* forced completion of it would create no inspection.                     *)
C24_ForceCompleteNeedsAuthorizedRole ==
    \A s \in DOMAIN sessions :
        LET iid == sessions[s].order_item_id
        IN  (/\ iid # NULL
             /\ items[iid].produced_quantity < items[iid].quantity
             /\ items[iid].status \notin {"F", "dispatched"}
             /\ Rows < MaxRows)
            => \E u \in Roles :
                  ~ENABLED (/\ CompleteSession(s, ForceBody, u)
                            /\ Len(inspections') = Len(inspections) + 1)

(* C25: no partial write survives a rejected operation: whenever a request *)
(* is answered with an error (400, 401, 403, 404, 409 or 500), the orders, *)
(* items, sessions, logs, inspections and schedule entries are what they   *)
(* were before the request.                                                *)
C25_ErrorLeavesTablesUnchanged ==
    [][resp'.code >= 400
       => UNCHANGED <<orders, items, sessions, logs, inspections, schedule>>]_vars

(* C26: every change of an item's status is one of the forward steps       *)
(* T to C, C to R, R to P, P to F, F to dispatched; no request moves an    *)
(* item across more than one step.                                         *)
ForwardSteps ==
    {<<"T", "C">>, <<"C", "R">>, <<"R", "P">>, <<"P", "F">>, <<"F", "dispatched">>}

C26_ItemStatusMovesOneStep ==
    [][\A i \in DOMAIN items :
          items'[i].status # items[i].status
          => <<items[i].status, items'[i].status>> \in ForwardSteps]_vars

(* C27: approving a QA inspection moves its item to F only when the item's *)
(* produced_quantity is at least its ordered quantity or a force-complete  *)
(* was issued for it (a session completion has opened an inspection on the *)
(* item); otherwise the approval leaves the item's status as it was.       *)
CompletionOpenedInspection(iid) ==
    \E q \in DOMAIN inspections :
        /\ inspections[q].order_item_id = iid
        /\ inspections[q].inspection_type = "final"
        /\ inspections[q].session_id # NULL

C27_ApprovalNeedsTargetOrForce ==
    [][(/\ resp'.op = "approve" /\ resp'.code = 200
        /\ resp'.id \in DOMAIN inspections
        /\ inspections[resp'.id].order_item_id # NULL)
       => LET iid == inspections[resp'.id].order_item_id
          IN  items'[iid].status # items[iid].status
              => \/ items[iid].produced_quantity >= items[iid].quantity
                 \/ CompletionOpenedInspection(iid)]_vars

(* C28: opening a production session against an item changes that item's   *)
(* status only if it is R, and then to P, after which the order status is  *)
(* the aggregate of the item statuses; for an item in any other status,    *)
(* and for a request that is refused, the item's and the order's status    *)
(* are unchanged.  No other item is touched.                               *)
C28_OpenSessionPromotesOnlyR ==
    [][(resp'.op = "open_session" /\ resp'.id \in DOMAIN items) =>
          LET i == resp'.id
              o == items[i].order_id
          IN  /\ Len(items') = Len(items)
              /\ \A j \in DOMAIN items : j # i => items'[j] = items[j]
              /\ IF resp'.code = 201 /\ items[i].status = "R"
                 THEN /\ items'[i].status = "P"
                      /\ orders'[o].status = compute_order_status(orders, items', o)
                 ELSE /\ items'[i].status = items[i].status
                      /\ orders'[o].status = orders[o].status]_vars

(* A session has been opened on the first of two items, which was in R and *)
(* is now in P as its order is; the second item is still in T.             *)
C28_Witness ==
    /\ resp.op = "open_session" /\ resp.code = 201 /\ resp.id = 1
    /\ Len(items) = 2 /\ Len(sessions) = 1
    /\ sessions[1].order_item_id = 1
    /\ items[1].status = "P" /\ items[2].status = "T"
    /\ orders[items[1].order_id].status = "P"

(* C29: creating a schedule entry for an item (POST /schedule with an item *)
(* or with an order) moves the item from T to C and never further; an item *)
(* in C keeps status C; an item in R, P, F or dispatched keeps its status, *)
(* its station and its scheduled date; a refused request changes no item.  *)
C29_ScheduleMovesOnlyTToC ==
    [][resp'.op \in {"schedule_item", "schedule_order"} =>
          /\ Len(items') = Len(items)
          /\ \A i \in DOMAIN items :
                /\ items'[i].status \in {items[i].status} \cup
                                         (IF items[i].status = "T" THEN {"C"} ELSE {})
                /\ items[i].status \in {"R", "P", "F", "dispatched"} => items'[i] = items[i]
          /\ resp'.code # 201 => items' = items
          /\ \A e \in (Len(schedule) + 1)..Len(schedule') :
                LET i == schedule'[e].order_item_id
                IN  items[i].status \in {"T", "C"} => items'[i].status = "C"]_vars

(* An item was scheduled on station 1 for date 1 while in T, was docked,   *)
(* and has been scheduled again on station 2 for date 2 while in R: it is  *)
(* still in R on station 1 for date 1.                                     *)
C29_Witness ==
    /\ resp.op = "schedule_item" /\ resp.code = 201
    /\ Len(schedule) = 2
    /\ schedule[1].order_item_id = resp.id /\ schedule[1].station_id = 1
    /\ schedule[2].order_item_id = resp.id /\ schedule[2].station_id = 2
    /\ items[resp.id].status = "R"
    /\ items[resp.id].station_id = 1 /\ items[resp.id].scheduled_date = 1

(* C30: batch docking complete on an order moves every item of that order  *)
(* that is in C to R and sets its docking_completed_at, and leaves the     *)
(* status of every item not in C and of every item of another order as it  *)
(* was; single-item docking complete on an item not in C is rejected and   *)
(* changes nothing.                                                        *)
C30_DockingMovesOnlyCItems ==
    [][/\ (resp'.op = "docking_complete" /\ resp'.code = 200) =>
             /\ Len(items') = Len(items)
             /\ \A i \in DOMAIN items :
                   IF items[i].order_id = resp'.id /\ items[i].status = "C"
                   THEN /\ items'[i].status = "R"
                        /\ items'[i].docking_completed_at # NULL
                   ELSE items'[i].status = items[i].status
       /\ (/\ resp'.op = "item_docking_complete"
           /\ resp'.id \in DOMAIN items
           /\ items[resp'.id].status # "C") =>
             /\ resp'.code \in {400, 401}
             /\ UNCHANGED <<orders, items, sessions, logs, inspections, schedule,
                            deliveries, notifications>>]_vars

(* Docking has been completed for order 1, whose item is now in R with its *)
(* docking time set, while the item of order 2 is still in C.              *)
C30_Witness ==
    /\ resp.op = "docking_complete" /\ resp.code = 200 /\ resp.id = 1
    /\ \E i, j \in DOMAIN items :
          /\ items[i].order_id = 1 /\ items[i].status = "R"
          /\ items[i].docking_completed_at # NULL
          /\ items[j].order_id = 2 /\ items[j].status = "C"
          /\ items[j].docking_completed_at = NULL

(* C31: the order-level dispatch (PUT /orders/:id/status with dispatched)  *)
(* moves only the items in F to dispatched, and no order has status        *)
(* dispatched while one of its items is in T, C, R or P.                   *)
C31_DispatchOnlyFinishedItems ==
    [][/\ (resp'.op = "set_order_status" /\ resp'.arg = "dispatched") =>
             /\ Len(items') = Len(items)
             /\ \A i \in DOMAIN items :
                   items'[i].status # items[i].status
                   => /\ resp'.code = 200
                      /\ items[i].order_id = resp'.id
                      /\ items[i].status = "F" /\ items'[i].status = "dispatched"
       /\ \A o \in DOMAIN orders :
             orders'[o].status = "dispatched"
             => \A i \in ItemIdsOf(items', o) :
                   items'[i].status \notin {"T", "C", "R", "P"}]_vars

(* C32: an order's status becomes delivered or collected only from         *)
(* dispatched: no request sets an order to delivered or collected while    *)
(* its status is T, C, R, P or F.                                          *)
C32_TerminalOnlyFromDispatched ==
    [][\A o \in DOMAIN orders :
          (orders'[o].status \in Terminal /\ orders[o].status \notin Terminal)
          => orders[o].status = "dispatched"]_vars

(* C33: when a session against an item is completed, the item's            *)
(* produced_quantity grows by the session's final produced quantity (the   *)
(* quantity the completed session row holds), so that units recorded by    *)
(* PUT /production/sessions/:id/log count toward the item's target.        *)
C33_CompletionAddsFinalQuantity ==
    [][(/\ resp'.op = "complete_session" /\ resp'.code = 200
        /\ resp'.id \in DOMAIN sessions
        /\ sessions[resp'.id].status # "completed"
        /\ sessions[resp'.id].order_item_id # NULL)
       => LET sid == resp'.id
              iid == sessions[sid].order_item_id
          IN  items'[iid].produced_quantity =
                  items[iid].produced_quantity + sessions'[sid].produced_quantity]_vars

(* C34: under session log and session complete requests an item's          *)
(* produced_quantity never decreases and is never negative.                *)
C34_ProducedQuantityMonotone ==
    [][resp'.op \in {"log", "complete_session"} =>
          \A i \in DOMAIN items :
              /\ items'[i].produced_quantity >= items[i].produced_quantity
              /\ items'[i].produced_quantity >= 0]_vars

(* C35: once an item's status is F or dispatched, no session log or        *)
(* session complete request changes the item's produced_quantity.          *)
C35_FinishedItemQuantityLocked ==
    [][resp'.op \in {"log", "complete_session"} =>
          \A i \in DOMAIN items :
              items[i].status \in {"F", "dispatched"}
              => items'[i].produced_quantity = items[i].produced_quantity]_vars

(* C36: a completion request on a session that is already completed has no *)
(* further effect: it creates no QA inspection and leaves the item's       *)
(* produced_quantity as it was.                                            *)
C36_RecompletionHasNoEffect ==
    [][(/\ resp'.op = "complete_session"
        /\ resp'.id \in DOMAIN sessions
        /\ sessions[resp'.id].status = "completed")
       => /\ inspections' = inspections
          /\ \A i \in DOMAIN items :
                items'[i].produced_quantity = items[i].produced_quantity]_vars

(* The total of a session when the quantities of its log entries are       *)
(* applied one after the other, each result clamped at 0.                  *)
RECURSIVE ReplayLogs(_, _)
ReplayLogs(lgs, sid) ==
    IF lgs = <<>> THEN 0
    ELSE LET last == lgs[Len(lgs)]
             before == ReplayLogs(SubSeq(lgs, 1, Len(lgs) - 1), sid)
         IN  IF last.session_id = sid THEN Max(0, before + last.quantity_change)
             ELSE before

(* C37: when log requests on the same active session run side by side, no  *)
(* delta is lost: once all have finished, the session's produced_quantity  *)
(* is the result of applying the logged deltas one after the other, each   *)
(* clamped at 0, and is the running_total of the last log entry.           *)
C37_NoLoggedDeltaLost ==
    pending = {} =>
        \A sid \in DOMAIN sessions :
            /\ sessions[sid].produced_quantity = ReplayLogs(logs, sid)
            /\ (logs # <<>> /\ logs[Len(logs)].session_id = sid)
               => logs[Len(logs)].running_total = sessions[sid].produced_quantity

(* C38: when requests that each change the status of a different item of   *)
(* one order run side by side, each committing its item update and then    *)
(* running the aggregator, then once the last of them has finished the     *)
(* order's persisted status and progress are the aggregator's values for   *)
(* the item statuses as they then are.                                     *)
C38_ConcurrentSyncsConverge ==
    [][(pending # {} /\ pending' = {}) =>
          \A o \in {p.order_id : p \in pending} :
              /\ orders'[o].status = compute_order_status(orders', items', o)
              /\ orders'[o].progress = ProgressOf(o)']_vars

(* C39: a successful split leaves the original item's status and           *)
(* produced_quantity as they were and creates the new item with status T   *)
(* and produced_quantity 0, whatever the original item's status is.        *)
C39_SplitKeepsProgressOfOriginal ==
    [][(resp'.op = "split" /\ resp'.code = 201 /\ Len(items') = Len(items) + 1) =>
          LET iid == resp'.id
              new == items'[Len(items')]
          IN  /\ items'[iid].status = items[iid].status
              /\ items'[iid].produced_quantity = items[iid].produced_quantity
              /\ new.split_from_item_id = iid
              /\ new.status = "T"
              /\ new.produced_quantity = 0]_vars

(* A finished line with one unit produced has been split. *)
C39_Witness ==
    /\ resp.op = "split" /\ resp.code = 201
    /\ items[resp.id].status = "F"
    /\ items[resp.id].produced_quantity = 1
    /\ items[Len(items)].split_from_item_id = resp.id
    /\ items[Len(items)].status = "T"
    /\ items[Len(items)].produced_quantity = 0

====
